---- MODULE Spec2Model ----
(***************************************************************************)
(* Webcam-Plugin: persistent camera identity and reconciliation.           *)
(*                                                                         *)
(* The model follows src/camera_identifier.py (hardware inventory,         *)
(* signature construction, scan and resolve), src/webcam.py (the capture   *)
(* handle) and src/webcam_plugin.py (the reconciliation pass run by        *)
(* WebcamPlugin.__init__).                                                 *)
(*                                                                         *)
(* Strings the program builds (signatures, resolution strings, names) are  *)
(* sequences of one-character strings, so that joining, replacing and      *)
(* formatting are computed as the code computes them.                      *)
(*                                                                         *)
(* The environment is the capture primitive (cv2.VideoCapture), the        *)
(* hardware-info tools and the configuration manager.  What they answer    *)
(* is drawn in Init (hardware, platform, tools, stored configuration) or   *)
(* at the call (whether save_config raises).  Whether a device that is     *)
(* already held by one capture handle can be opened by a second one        *)
(* depends on the driver: `exclusive` draws both answers.                  *)
(*                                                                         *)
(* Besides the pass (Spec) and the identifier used by the application      *)
(* (SpecResolve), a Webcam is modelled on its own: constructed, read,      *)
(* resized, released and deleted (SpecHandle), constructed over the whole  *)
(* range of orientation arguments (SpecConstruct), and the signature join  *)
(* of get_camera_info is applied to info dicts with any fields empty       *)
(* (SpecSignature).  The size the primitive ends with after a request is   *)
(* the requested one or the one the driver substitutes.  get_camera_info   *)
(* is also run on one device under every outcome of the hardware-info      *)
(* tools (SpecDescribe), and the plugin is constructed a second time on    *)
(* the configuration the first construction left (SpecRestart).            *)
(*                                                                         *)
(* Configuration entries are well formed (every key the code reads is      *)
(* present, names are unique), as the configuration schema has them.       *)
(* Hardware changes only between calls, never during one.                  *)
(***************************************************************************)
EXTENDS Integers, Sequences, FiniteSets, TLC

(***************************************************************************)
(* Bounds of the model.                                                    *)
(***************************************************************************)
MaxDev == 2          \* device indices 0 .. MaxDev-1 exist in the model
MaxEntries == 2      \* the stored configuration has at most this many entries
MaxReplug == 1       \* hardware changes between calls
MaxResolve == 2      \* calls of find_camera_by_signature by the application
MaxDegrees == 450    \* orientation arguments range over -MaxDegrees .. MaxDegrees
MaxOps == 4          \* calls on a handle the application uses on its own
MaxBuilds == 2       \* times a signature is built from the same info

DeviceIds == 0 .. (MaxDev - 1)

None == -1           \* Python's None where an int is expected

(***************************************************************************)
(* Strings.                                                                *)
(***************************************************************************)
Digits == <<"0", "1", "2", "3", "4", "5", "6", "7", "8", "9">>

RECURSIVE IntToStr(_)
\* str(n) / f"{n}" for n >= 0
IntToStr(n) ==
    IF n < 10 THEN <<Digits[n + 1]>>
    ELSE IntToStr(n \div 10) \o <<Digits[(n % 10) + 1]>>

\* s.replace(' ', '_')
ReplaceSpaces(s) == [j \in 1 .. Len(s) |-> IF s[j] = " " THEN "_" ELSE s[j]]

RECURSIVE JoinNonEmpty(_)
\* '_'.join([part for part in parts if part])
JoinNonEmpty(parts) ==
    IF parts = <<>> THEN <<>>
    ELSE LET rest == JoinNonEmpty(Tail(parts))
         IN  IF Head(parts) = <<>> THEN rest
             ELSE IF rest = <<>> THEN Head(parts)
             ELSE Head(parts) \o <<"_">> \o rest

\* f"{width}x{height}@{fps}"
ResolutionSignature(width, height, fps) ==
    IntToStr(width) \o <<"x">> \o IntToStr(height) \o <<"@">> \o IntToStr(fps)

\* f"device_{device_id}"
DeviceKey(device_id) == <<"d", "e", "v", "i", "c", "e", "_">> \o IntToStr(device_id)

\* f"Camera_{device_id}"
WindowsName(device_id) == <<"C", "a", "m", "e", "r", "a", "_">> \o IntToStr(device_id)

(***************************************************************************)
(* Hardware: what is plugged in at each index.                             *)
(***************************************************************************)
\* a camera with full USB metadata: vendor 046d, product 0825, name "HD Cam"
KindA == [vendor_id |-> <<"0", "4", "6", "d">>,
          product_id |-> <<"0", "8", "2", "5">>,
          serial_number |-> <<>>,
          name |-> <<"H", "D", " ", "C", "a", "m">>,
          width |-> 640, height |-> 480, fps |-> 30]

\* a camera the OS knows nothing about; only the live probe tells it apart
KindB == [vendor_id |-> <<>>, product_id |-> <<>>, serial_number |-> <<>>,
          name |-> <<>>,
          width |-> 1280, height |-> 720, fps |-> 15]

Kinds == {KindA, KindB}

\* st: "absent" (no device node), "busy" (present, cannot be opened: held by
\* another process, permission denied), "ok" (present and can be opened)
Absent == [st |-> "absent", desc |-> KindB]

DeviceStates ==
    {Absent, [st |-> "busy", desc |-> KindA]}
        \cup {[st |-> "ok", desc |-> kd] : kd \in Kinds}

Systems == {"linux", "darwin", "windows"}

\* what running a hardware-info tool can come to: "ok" (exit code 0 and
\* output of the expected form), "missing" (FileNotFoundError), "timeout"
\* (TimeoutExpired), "nonzero" (exit code not 0), "malformed" (exit code 0
\* and output that is not of the expected form)
ToolOutcomes == {"ok", "missing", "timeout", "nonzero", "malformed"}

\* every tool answers
ToolsOk == [v4l2 |-> "ok", udevadm |-> "ok", system_profiler |-> "ok"]

\* no tool is installed
ToolsDown == [v4l2 |-> "missing", udevadm |-> "missing",
              system_profiler |-> "missing"]

ToolStates(sys) == IF sys = "linux" THEN {ToolsOk, ToolsDown} ELSE {ToolsOk}


(***************************************************************************)
(* State.                                                                  *)
(***************************************************************************)
VARIABLES
    system,            \* platform.system().lower()
    tools,             \* which hardware-info tools answer
    exclusive,         \* TRUE: a device held by one handle cannot be opened again
    hw,                \* device index -> what is plugged in there
    config,            \* the configuration store: [readable, devices]
    pc,                \* position of the running call
    ret,               \* who called get_all_cameras: "load", "find", "user"
    cameras,           \* WebcamPlugin.cameras: name -> Webcam
    camera_signatures, \* WebcamPlugin.camera_signatures: name -> signature
    devices_config,    \* _load_cameras_from_config: the loaded entries
    i,                 \* _load_cameras_from_config: loop index (1-based)
    config_updated,    \* _load_cameras_from_config: the dirty flag
    updated_devices,   \* _load_cameras_from_config: the entries to save
    camera,            \* _generate_camera_signature: the Webcam just built
    available_devices, \* get_all_cameras: the indices to test
    k,                 \* get_all_cameras: loop index (1-based)
    scan_cameras,      \* get_all_cameras: the dict under construction
    cap,               \* get_all_cameras: index its capture holds open, or None
    cap2,              \* get_camera_info: index its capture holds open, or None
    scan_opens,        \* get_all_cameras: the indices it has called VideoCapture on
    target_signature,  \* find_camera_by_signature: the argument
    actual,            \* per entry, what find_camera_by_signature returned
    save_calls,        \* number of calls of ConfigManager.save_config
    saved,             \* the entry sets passed to save_config, in order
    fallback,          \* TRUE once the except branch of the pass has run
    resolve_log,       \* the application's find_camera_by_signature calls so far
    replugs,           \* hardware changes so far
    args,              \* Webcam(...): the constructor's arguments
    handle,            \* a Webcam the application uses on its own
    handle_pc,         \* "none", "new", "live" (constructed), "deleted"
    frame_size,        \* the primitive's CAP_PROP_FRAME_WIDTH and _HEIGHT
    cap_release_calls, \* calls of cap.release() on the handle's primitive
    cap_reads,         \* what each cap.read() on the handle's primitive answered
    cap_prop_calls,    \* calls of cap.set() and cap.get() by the handle's methods
    release_calls,     \* calls of Webcam.release() on the handle
    result,            \* what the last call on the handle returned
    ops,               \* calls on the handle so far
    camera_info,       \* get_camera_info: the info dict before the join
    described,         \* get_camera_info: its device_id argument, or None
    signatures,        \* the unique_signature values built from info, in order
    passes,            \* WebcamPlugin() constructions completed before this one
    previous           \* what the previous construction's pass left behind

vars == <<system, tools, exclusive, hw, config, pc, ret, cameras,
          camera_signatures, devices_config, i, config_updated,
          updated_devices, camera, available_devices, k, scan_cameras, cap,
          cap2, target_signature, actual, save_calls, saved, fallback,
          resolve_log, replugs, args, handle, handle_pc, frame_size,
          cap_release_calls, cap_reads, cap_prop_calls, release_calls,
          result, ops,
          camera_info, described, signatures, passes, previous, scan_opens>>

handleVars == <<args, handle, handle_pc, frame_size, cap_release_calls,
                cap_reads, cap_prop_calls, release_calls, result, ops>>

infoVars == <<camera_info, described, signatures>>

envVars == <<system, tools, exclusive>>

scanVars == <<available_devices, k, scan_cameras, cap, cap2, scan_opens>>

loadVars == <<devices_config, i, config_updated, updated_devices, camera, actual>>

saveVars == <<config, save_calls, saved>>

userVars == <<resolve_log, replugs>>

restartVars == <<passes, previous>>

(***************************************************************************)
(* The capture primitive.                                                  *)
(***************************************************************************)
HwAt(hwmap, d) == IF d \in DOMAIN hwmap THEN hwmap[d] ELSE Absent

\* the value of `camera` while no Webcam is under construction
NoCamera == [device_id |-> None, raw_width |-> 0, raw_height |-> 0,
             buffer_size |-> 0, name |-> "", orientation |-> 0,
             is_opened |-> FALSE, cap |-> "none"]

\* number of persistent capture handles open on index d
PersistentOn(d) ==
    Cardinality({n \in DOMAIN cameras :
                    cameras[n].cap = "open" /\ cameras[n].device_id = d})
    + (IF camera.cap = "open" /\ camera.device_id = d THEN 1 ELSE 0)

\* number of transient capture handles open on index d
TransientOn(d) == (IF cap = d THEN 1 ELSE 0) + (IF cap2 = d THEN 1 ELSE 0)

HeldOn(d) == PersistentOn(d) + TransientOn(d)

\* cv2.VideoCapture(d).isOpened()
CanOpen(d) == HwAt(hw, d).st = "ok" /\ (exclusive => HeldOn(d) = 0)

(***************************************************************************)
(* camera_identifier.py: hardware inventory and signature.                 *)
(***************************************************************************)
EmptyInfo == [name |-> <<>>, vendor_id |-> <<>>, product_id |-> <<>>,
              serial_number |-> <<>>]

\* the info dict of get_camera_info as initialised, lines 28-38
BlankInfo == [name |-> <<>>, vendor_id |-> <<>>, product_id |-> <<>>,
              serial_number |-> <<>>, resolution_signature |-> <<>>]

RECURSIVE PresentFrom(_, _)
\* the devices the OS knows, in index order, from index d on
PresentFrom(hwmap, d) ==
    IF d \notin DOMAIN hwmap THEN <<>>
    ELSE (IF hwmap[d].st = "absent" THEN <<>> ELSE <<hwmap[d].desc>>)
            \o PresentFrom(hwmap, d + 1)

\* the structured system report of macOS: one item per camera, in device order
SystemProfilerReport(hwmap) == PresentFrom(hwmap, 0)

\* LinuxCameraIdentifier._get_platform_camera_info: v4l2-ctl gives the name,
\* udevadm gives vendor, product and serial; a tool that is missing, times
\* out or exits non-zero (no such device) leaves its fields empty.  A
\* 'Card type' line of v4l2-ctl without ':' makes line.split(':')[1] raise
\* IndexError, which only the outer except catches: the udevadm block is
\* then not run.  udevadm output without the expected keys sets no field.
LinuxPlatformInfo(tls, hwmap, device_id) ==
    LET dev == HwAt(hwmap, device_id)
        v4l2 == tls.v4l2 = "ok" /\ dev.st # "absent"
        aborted == tls.v4l2 = "malformed" /\ dev.st # "absent"
        udev == tls.udevadm = "ok" /\ dev.st # "absent" /\ ~aborted
    IN  [name |-> IF v4l2 THEN dev.desc.name ELSE <<>>,
         vendor_id |-> IF udev THEN dev.desc.vendor_id ELSE <<>>,
         product_id |-> IF udev THEN dev.desc.product_id ELSE <<>>,
         serial_number |-> IF udev THEN dev.desc.serial_number ELSE <<>>]

\* MacOSCameraIdentifier._get_platform_camera_info: the report item at
\* position device_id, if the report is that long
MacOSPlatformInfo(tls, hwmap, device_id) ==
    LET report == SystemProfilerReport(hwmap)
    IN  IF tls.system_profiler = "ok" /\ device_id < Len(report)
        THEN LET item == report[device_id + 1]
             IN  [name |-> item.name, vendor_id |-> item.vendor_id,
                  product_id |-> item.product_id,
                  serial_number |-> item.serial_number]
        ELSE EmptyInfo

\* WindowsCameraIdentifier._get_platform_camera_info: a synthetic name only
WindowsPlatformInfo(device_id) ==
    [EmptyInfo EXCEPT !.name = WindowsName(device_id)]

\* _get_platform_camera_info of the identifier create_camera_identifier made
PlatformInfo(sys, tls, hwmap, device_id) ==
    IF sys = "darwin" THEN MacOSPlatformInfo(tls, hwmap, device_id)
    ELSE IF sys = "windows" THEN WindowsPlatformInfo(device_id)
    ELSE LinuxPlatformInfo(tls, hwmap, device_id)

\* UniqueSignature joining all five parts, the empty ones too
UniqueSignature_KeepsEmpty(info, resolution_signature) ==
    info.vendor_id \o <<"_">> \o info.product_id \o <<"_">>
        \o info.serial_number \o <<"_">> \o resolution_signature \o <<"_">>
        \o ReplaceSpaces(info.name)

\* the signature_parts of get_camera_info, joined; probed: its capture opened
UniqueSignature(info, resolution_signature) ==
    JoinNonEmpty(<<info.vendor_id, info.product_id, info.serial_number,
                   resolution_signature, ReplaceSpaces(info.name)>>)

\* CameraIdentifier.get_camera_info(device_id)['unique_signature'], given
\* whether the capture it opens at device_id opened
CameraInfoSignature(sys, tls, hwmap, device_id, probed) ==
    LET desc == HwAt(hwmap, device_id).desc
        res == IF probed
               THEN ResolutionSignature(desc.width, desc.height, desc.fps)
               ELSE <<>>
    IN  UniqueSignature(PlatformInfo(sys, tls, hwmap, device_id), res)

\* the key get_all_cameras files the info under
CameraKey(signature, device_id) ==
    IF signature # <<>> THEN signature ELSE DeviceKey(device_id)

\* DictPut leaving a key that is already there as it is
DictPut_KeepsFirst(dict, key, info) ==
    IF \E j \in 1 .. Len(dict) : dict[j].key = key
    THEN dict
    ELSE Append(dict, [key |-> key, info |-> info])

\* cameras[key] = info on a dict kept as a sequence of [key, info] in
\* insertion order: a key already there keeps its place and gets the new info
DictPut(dict, key, info) ==
    IF \E j \in 1 .. Len(dict) : dict[j].key = key
    THEN [j \in 1 .. Len(dict) |->
            IF dict[j].key = key THEN [key |-> key, info |-> info] ELSE dict[j]]
    ELSE Append(dict, [key |-> key, info |-> info])

\* info['device_id'] = str(device_id), read back with int(...)
DigitValue(c) == (CHOOSE j \in 1 .. 10 : Digits[j] = c) - 1

RECURSIVE StrToInt(_)
StrToInt(s) ==
    IF Len(s) = 1 THEN DigitValue(s[1])
    ELSE 10 * StrToInt(SubSeq(s, 1, Len(s) - 1)) + DigitValue(s[Len(s)])

\* the loop of find_camera_by_signature over cameras.items()
FindInScan(dict, signature) ==
    IF \E j \in 1 .. Len(dict) : dict[j].key = signature
    THEN LET j == CHOOSE j \in 1 .. Len(dict) :
                     /\ dict[j].key = signature
                     /\ \A h \in 1 .. (j - 1) : dict[h].key # signature
         IN  StrToInt(dict[j].info.device_id)
    ELSE None

\* number of indices the probing variants test: range(10)
ProbeRange == 10

RECURSIVE SortedPresent(_, _)
\* LinuxCameraIdentifier.get_available_video_devices: sorted /dev/video* numbers
SortedPresent(hwmap, d) ==
    IF d \notin DOMAIN hwmap THEN <<>>
    ELSE (IF hwmap[d].st = "absent" THEN <<>> ELSE <<d>>)
            \o SortedPresent(hwmap, d + 1)

RECURSIVE ProbeSequential(_)
\* Mac/Windows get_available_video_devices: open 0, 1, ... and stop at the
\* first index that does not open; each capture is released before the next
ProbeSequential(d) ==
    IF d >= ProbeRange THEN <<>>
    ELSE IF CanOpen(d) THEN <<d>> \o ProbeSequential(d + 1)
    ELSE <<>>

\* AvailableVideoDevices with the /dev/video* numbers in the reverse of
\* their numeric order
AvailableVideoDevices_Unsorted ==
    IF system = "linux"
    THEN LET s == SortedPresent(hw, 0)
         IN  [j \in 1 .. Len(s) |-> s[Len(s) + 1 - j]]
    ELSE ProbeSequential(0)

\* get_available_video_devices of the identifier in use
AvailableVideoDevices ==
    IF system = "linux" THEN SortedPresent(hw, 0) ELSE ProbeSequential(0)

(***************************************************************************)
(* webcam.py: the capture handle.                                          *)
(***************************************************************************)
\* round(n / d) of Python for an integer n and d > 0: ties go to the even side
RoundHalfEven(n, d) ==
    LET q == n \div d
        r == n % d
    IN  IF 2 * r < d THEN q
        ELSE IF 2 * r > d THEN q + 1
        ELSE IF q % 2 = 0 THEN q ELSE q + 1

\* NormalizeOrientation cutting down to the multiple of 90 below
NormalizeOrientation_Truncates(orientation) ==
    IF orientation \in {0, 90, 180, 270} THEN orientation
    ELSE ((orientation \div 90) * 90) % 360

\* Webcam.__init__: orientation snapped to one of 0, 90, 180, 270
NormalizeOrientation(orientation) ==
    IF orientation \in {0, 90, 180, 270} THEN orientation
    ELSE (RoundHalfEven(orientation, 90) * 90) % 360

\* Webcam(device_id, width, height, buffer_size, name, orientation):
\* __init__ followed by _initialize_camera, which never raises; opened is
\* what cap.isOpened() answered
Webcam(device_id, width, height, buffer_size, name, orientation, opened) ==
    [device_id |-> device_id, raw_width |-> width, raw_height |-> height,
     buffer_size |-> buffer_size, name |-> name,
     orientation |-> NormalizeOrientation(orientation),
     is_opened |-> opened,
     cap |-> IF opened THEN "open" ELSE "failed"]

\* the defaults of Webcam.__init__
DefaultDeviceId == 0

DefaultWidth == 640

DefaultHeight == 480

DefaultBufferSize == 1

DefaultOrientation == 0

\* NotUsable looking at self.cap alone
NotUsable_IgnoresIsOpened(h) == h.cap = "none"

\* the guard `not self.is_opened or self.cap is None` of the Webcam methods
NotUsable(h) == ~h.is_opened \/ h.cap = "none"

\* (width, height) or (height, width) by orientation
Oriented(size, orientation) ==
    IF orientation \in {90, 270} THEN <<size[2], size[1]>> ELSE size

\* Webcam._apply_orientation: the shape of the rotated frame
ApplyOrientation(shape, orientation) ==
    IF orientation = 0 THEN shape
    ELSE IF orientation = 90 THEN <<shape[2], shape[1]>>
    ELSE IF orientation = 180 THEN shape
    ELSE IF orientation = 270 THEN <<shape[2], shape[1]>>
    ELSE shape

\* Webcam.get_resolution, given what the primitive reports as frame size:
\* the raw fields are used only while the handle is not open
GetResolution(h, size) ==
    IF NotUsable(h)
    THEN Oriented(<<h.raw_width, h.raw_height>>, h.orientation)
    ELSE Oriented(size, h.orientation)

\* what cap.set(CAP_PROP_FRAME_WIDTH/HEIGHT, requested) can leave as the
\* primitive's value on a device whose own mode is native: the requested
\* value, or the mode the driver substitutes
Negotiated(requested, native) == {requested, native}

\* GetFrame giving up the handle when a read fails
GetFrame_ClosesOnFailure(h, read_ok, size) ==
    IF NotUsable(h) THEN [handle |-> h, reads |-> 0, frame |-> <<>>]
    ELSE IF ~read_ok
    THEN [handle |-> [h EXCEPT !.is_opened = FALSE], reads |-> 1, frame |-> <<>>]
    ELSE [handle |-> h, reads |-> 1,
          frame |-> ApplyOrientation(size, h.orientation)]

\* Webcam.get_frame, given what cap.read() answers (ret, and a frame of the
\* primitive's frame size): the handle after the call, the number of
\* cap.read() calls, and the shape of the returned frame (<<>> for None)
GetFrame(h, read_ok, size) ==
    IF NotUsable(h) THEN [handle |-> h, reads |-> 0, frame |-> <<>>]
    ELSE IF ~read_ok THEN [handle |-> h, reads |-> 1, frame |-> <<>>]
    ELSE [handle |-> h, reads |-> 1,
          frame |-> ApplyOrientation(size, h.orientation)]

\* Webcam.set_resolution, given what the two cap.set calls answered: the
\* handle after the call and the returned bool
SetResolution(h, width, height, success_width, success_height) ==
    IF NotUsable(h) THEN [handle |-> h, value |-> FALSE]
    ELSE IF success_width /\ success_height
    THEN [handle |-> [h EXCEPT !.raw_width = width, !.raw_height = height],
          value |-> TRUE]
    ELSE [handle |-> h, value |-> FALSE]

\* Webcam.set_property, given what cap.set answers: the returned bool and
\* the number of cap.set calls
SetProperty(h, success) ==
    IF NotUsable(h) THEN [value |-> FALSE, calls |-> 0]
    ELSE [value |-> success, calls |-> 1]

\* Webcam.get_property, given what cap.get answers: the returned value and
\* the number of cap.get calls
GetProperty(h, answer) ==
    IF NotUsable(h) THEN [value |-> -1, calls |-> 0]
    ELSE [value |-> answer, calls |-> 1]

\* the cap.get calls of get_resolution and the cap.set calls of
\* set_resolution: two on a usable handle, none otherwise
SizeCalls(h) == IF NotUsable(h) THEN 0 ELSE 2

\* WebcamPlugin.get_active_cameras on the map cams
ActiveCameras(cams) == {n \in DOMAIN cams : cams[n].is_opened}

\* Release forgetting the configured dimensions
Release_ForgetsSize(h) ==
    IF h.cap # "none"
    THEN [h EXCEPT !.is_opened = FALSE, !.cap = "released",
                   !.raw_width = IF h.is_opened THEN h.raw_width ELSE 0]
    ELSE h

\* Webcam.release: the handle after the call; self.cap stays set
Release(h) ==
    IF h.cap # "none"
    THEN [h EXCEPT !.is_opened = FALSE, !.cap = "released"]
    ELSE h

\* Webcam.release: the number of cap.release() calls it makes
ReleaseCloses(h) == IF h.cap # "none" THEN 1 ELSE 0

(***************************************************************************)
(* The stored configuration.                                               *)
(***************************************************************************)
EntryNames == <<"cam1", "cam2", "cam3", "cam4">>

\* orientation values found in stored entries
ConfigOrientations == {90}

\* the signatures an earlier run on this machine can have stored for a
\* camera of kind kd at index d
StoredSignature(sys, tls, excl, kd, d) ==
    CameraInfoSignature(sys, tls, [x \in DeviceIds |-> [st |-> "ok", desc |-> kd]],
                        d, ~excl)

SignaturePool(sys, tls, excl) ==
    {StoredSignature(sys, tls, excl, kd, d) : kd \in Kinds, d \in DeviceIds}
        \ {<<>>}

\* the entries position j of the stored list can hold
EntryChoices(sys, tls, excl, j) ==
    {e \in [name : {EntryNames[j]}, device_id : DeviceIds,
            has_signature : BOOLEAN,
            hardware_signature : SignaturePool(sys, tls, excl) \cup {<<>>},
            width : {DefaultWidth}, height : {DefaultHeight},
            buffer_size : {DefaultBufferSize},
            orientation : ConfigOrientations] :
        e.has_signature \/ e.hardware_signature = <<>>}

\* the stored lists of length n
RECURSIVE EntryLists(_, _, _, _)
EntryLists(sys, tls, excl, n) ==
    IF n = 0 THEN {<<>>}
    ELSE {Append(l, e) : l \in EntryLists(sys, tls, excl, n - 1),
                         e \in EntryChoices(sys, tls, excl, n)}

StoredConfigs(sys, tls, excl) ==
    {[readable |-> FALSE, devices |-> <<>>]}
        \cup {[readable |-> TRUE, devices |-> l] :
                l \in UNION {EntryLists(sys, tls, excl, n) : n \in 0 .. MaxEntries}}

(***************************************************************************)
(* Initial state: WebcamPlugin.__init__ has built the config manager and   *)
(* the identifier, cameras is empty, and _load_cameras_from_config is      *)
(* about to call get_all_cameras.                                          *)
(***************************************************************************)
\* the probing variants index the cameras the OS lists, so the present
\* indices have no gap there; /dev/video numbers may have gaps
Contiguous(hwmap) ==
    \A d \in DOMAIN hwmap :
        hwmap[d].st # "absent" =>
            \A e \in 0 .. (d - 1) : hwmap[e].st # "absent"

Plausible(sys, hwmap) == sys = "linux" \/ Contiguous(hwmap)

InitEnv ==
    /\ system \in Systems
    /\ tools \in ToolStates(system)
    /\ exclusive \in BOOLEAN
    /\ hw \in [DeviceIds -> DeviceStates]
    /\ Plausible(system, hw)

\* the value of `previous` while the first construction is still running
NoPrevious == [devices_config |-> <<>>, updated_devices |-> <<>>,
            cameras |-> << >>, camera_signatures |-> << >>,
            actual |-> <<>>, saved |-> <<>>, fallback |-> FALSE]

InitLocals ==
    /\ cameras = << >>
    /\ camera_signatures = << >>
    /\ devices_config = <<>>
    /\ i = 0
    /\ config_updated = FALSE
    /\ updated_devices = <<>>
    /\ camera = NoCamera
    /\ available_devices = <<>>
    /\ k = 0
    /\ scan_cameras = <<>>
    /\ cap = None
    /\ cap2 = None
    /\ scan_opens = <<>>
    /\ target_signature = <<>>
    /\ actual = <<>>
    /\ save_calls = 0
    /\ saved = <<>>
    /\ fallback = FALSE
    /\ resolve_log = <<>>
    /\ replugs = 0
    /\ passes = 0
    /\ previous = NoPrevious

\* no Webcam is used outside the plugin
NoHandle ==
    /\ args = [width |-> DefaultWidth, height |-> DefaultHeight,
               orientation |-> DefaultOrientation]
    /\ handle = NoCamera
    /\ handle_pc = "none"
    /\ frame_size = <<0, 0>>
    /\ cap_release_calls = 0
    /\ cap_reads = <<>>
    /\ cap_prop_calls = 0
    /\ release_calls = 0
    /\ result = [op |-> "none", read |-> "none", value |-> <<>>]
    /\ ops = 0

\* no signature is built outside a scan
NoInfo ==
    /\ camera_info = BlankInfo
    /\ described = None
    /\ signatures = <<>>

Init ==
    /\ InitEnv
    /\ config \in StoredConfigs(system, tools, exclusive)
    /\ pc = "scan_enum"
    /\ ret = "load"
    /\ InitLocals
    /\ NoHandle
    /\ NoInfo

(***************************************************************************)
(* CameraIdentifier.get_all_cameras, step by step: every open of a capture *)
(* is a step of its own, so that the handles held at the same time show.   *)
(***************************************************************************)
\* dict[key] = value on a Python dict kept as a function
Put(f, key, value) ==
    [x \in (DOMAIN f) \cup {key} |-> IF x = key THEN value ELSE f[x]]

\* lines 82-86: cameras = {}; available_devices = get_available_video_devices()
Scan_Enumerate ==
    /\ pc = "scan_enum"
    /\ available_devices' = AvailableVideoDevices
    /\ k' = 1
    /\ scan_cameras' = <<>>
    /\ scan_opens' = <<>>
    /\ pc' = "scan_open"
    /\ UNCHANGED <<envVars, handleVars, infoVars, restartVars, hw, ret, cameras, camera_signatures, loadVars,
                   cap, cap2, target_signature, saveVars, fallback, userVars>>

\* lines 89-91: cap = cv2.VideoCapture(device_id); an index that does not
\* open is skipped
Scan_Open ==
    /\ pc = "scan_open"
    /\ k <= Len(available_devices)
    /\ LET device_id == available_devices[k]
       IN  /\ scan_opens' = Append(scan_opens, device_id)
           /\ IF CanOpen(device_id)
              THEN /\ cap' = device_id
                   /\ pc' = "scan_probe"
                   /\ k' = k
              ELSE /\ cap' = None
                   /\ pc' = "scan_open"
                   /\ k' = k + 1
    /\ UNCHANGED <<envVars, handleVars, infoVars, restartVars, hw, ret, cameras, camera_signatures, loadVars,
                   available_devices, scan_cameras, cap2, target_signature,
                   saveVars, fallback, userVars>>

\* line 92 -> line 41: get_camera_info opens its own capture at device_id
Scan_Probe ==
    /\ pc = "scan_probe"
    /\ cap2' = IF CanOpen(available_devices[k]) THEN available_devices[k] ELSE None
    /\ pc' = "scan_record"
    /\ UNCHANGED <<envVars, handleVars, infoVars, restartVars, hw, ret, cameras, camera_signatures, loadVars,
                   available_devices, k, scan_cameras, cap, scan_opens,
                   target_signature,
                   saveVars, fallback, userVars>>

\* lines 42-63 and 93-97: the probe is read and released, the platform info
\* and the signature are built, cap is released, the info is filed
Scan_Record ==
    /\ pc = "scan_record"
    /\ LET device_id == available_devices[k]
           signature == CameraInfoSignature(system, tools, hw, device_id,
                                            cap2 # None)
           info == [device_id |-> IntToStr(device_id),
                    unique_signature |-> signature]
       IN  scan_cameras' = DictPut(scan_cameras, CameraKey(signature, device_id), info)
    /\ cap2' = None
    /\ cap' = None
    /\ k' = k + 1
    /\ pc' = "scan_open"
    /\ UNCHANGED <<envVars, handleVars, infoVars, restartVars, hw, ret, cameras, camera_signatures, loadVars,
                   available_devices, scan_opens, target_signature, saveVars,
                   fallback, userVars>>

\* line 99: return cameras, to the caller
Scan_Return ==
    /\ pc = "scan_open"
    /\ k > Len(available_devices)
    /\ pc' = CASE ret = "load" -> "read_config"
               [] ret = "find" -> "lookup"
               [] OTHER -> "user_lookup"
    /\ UNCHANGED <<envVars, handleVars, infoVars, restartVars, hw, ret, cameras, camera_signatures, loadVars,
                   scanVars, target_signature, saveVars, fallback, userVars>>

(***************************************************************************)
(* webcam_plugin.py: the reconciliation pass, _load_cameras_from_config.   *)
(***************************************************************************)
\* value of `actual` for an entry that was not looked up by signature
NoLookup == -2

\* _has_hardware_signature
HasHardwareSignature(device) ==
    device.has_signature /\ device.hardware_signature # <<>>

\* FallbackCameras with an except branch that only logs
FallbackCameras_Nothing == cameras

\* the except branch of _load_cameras_from_config:
\* self.cameras['default'] = Webcam(name="default_camera")
FallbackCameras ==
    Put(cameras, "default",
        Webcam(DefaultDeviceId, DefaultWidth, DefaultHeight, DefaultBufferSize,
               "default_camera", DefaultOrientation, CanOpen(DefaultDeviceId)))

\* lines 36-41: the configuration is read; reading an unreadable one raises,
\* and the except branch builds the default camera
Load_ReadConfig ==
    /\ pc = "read_config"
    /\ IF config.readable
       THEN /\ devices_config' = config.devices
            /\ config_updated' = FALSE
            /\ updated_devices' = <<>>
            /\ i' = 1
            /\ pc' = "entry"
            /\ UNCHANGED <<cameras, fallback>>
       ELSE /\ cameras' = FallbackCameras
            /\ fallback' = TRUE
            /\ pc' = "done"
            /\ UNCHANGED <<devices_config, config_updated, updated_devices, i>>
    /\ UNCHANGED <<envVars, handleVars, infoVars, restartVars, hw, ret, camera_signatures, camera, actual,
                   scanVars, target_signature, saveVars, userVars>>

\* lines 44-46, 74-81: the entry has a signature; find_camera_by_signature
\* starts a scan
Load_FindBySignature ==
    /\ pc = "entry"
    /\ i <= Len(devices_config)
    /\ HasHardwareSignature(devices_config[i])
    /\ target_signature' = devices_config[i].hardware_signature
    /\ ret' = "find"
    /\ pc' = "scan_enum"
    /\ UNCHANGED <<envVars, handleVars, infoVars, restartVars, hw, cameras, camera_signatures, loadVars, scanVars,
                   saveVars, fallback, userVars>>

\* LoadBySignature with the drift branch leaving the stored index in place
LoadBySignature_KeepsIndex(device, actual_device_id) ==
    IF actual_device_id = None
    THEN [updated_device |-> device, changed |-> FALSE, create |-> FALSE,
          device_id |-> None]
    ELSE [updated_device |-> device,
          changed |-> actual_device_id # device.device_id,
          create |-> TRUE,
          device_id |-> actual_device_id]

\* LoadBySignature falling back to the stored index when nothing matches
LoadBySignature_GuessesIndex(device, actual_device_id) ==
    IF actual_device_id = None
    THEN [updated_device |-> device, changed |-> FALSE, create |-> TRUE,
          device_id |-> device.device_id]
    ELSE [updated_device |->
              IF actual_device_id # device.device_id
              THEN [device EXCEPT !.device_id = actual_device_id]
              ELSE device,
          changed |-> actual_device_id # device.device_id,
          create |-> TRUE,
          device_id |-> actual_device_id]

\* LoadBySignature reporting a change whenever the camera was found
LoadBySignature_AlwaysDirty(device, actual_device_id) ==
    IF actual_device_id = None
    THEN [updated_device |-> device, changed |-> FALSE, create |-> FALSE,
          device_id |-> None]
    ELSE [updated_device |->
              IF actual_device_id # device.device_id
              THEN [device EXCEPT !.device_id = actual_device_id]
              ELSE device,
          changed |-> TRUE,
          create |-> TRUE,
          device_id |-> actual_device_id]

\* _load_camera_by_signature, lines 79-98, given what
\* find_camera_by_signature returned: the entry to save, the dirty bit, and
\* whether and where a camera is created
LoadBySignature(device, actual_device_id) ==
    IF actual_device_id = None
    THEN [updated_device |-> device, changed |-> FALSE, create |-> FALSE,
          device_id |-> None]
    ELSE [updated_device |->
              IF actual_device_id # device.device_id
              THEN [device EXCEPT !.device_id = actual_device_id]
              ELSE device,
          changed |-> actual_device_id # device.device_id,
          create |-> TRUE,
          device_id |-> actual_device_id]

\* lines 81-98 and 47, 53: the scan is searched, the entry updated, the
\* camera created (_create_camera_instance) and the entry appended
Load_Lookup ==
    /\ pc = "lookup"
    /\ LET device == devices_config[i]
           actual_device_id == FindInScan(scan_cameras, target_signature)
           r == LoadBySignature(device, actual_device_id)
       IN  /\ actual' = Append(actual, actual_device_id)
           /\ IF r.create
              THEN /\ cameras' = Put(cameras, device.name,
                                     Webcam(r.device_id, r.updated_device.width,
                                            r.updated_device.height,
                                            r.updated_device.buffer_size,
                                            device.name, DefaultOrientation,
                                            CanOpen(r.device_id)))
                   /\ camera_signatures' = Put(camera_signatures, device.name,
                                               target_signature)
              ELSE UNCHANGED <<cameras, camera_signatures>>
           /\ config_updated' = (config_updated \/ r.changed)
           /\ updated_devices' = Append(updated_devices, r.updated_device)
    /\ i' = i + 1
    /\ pc' = "entry"
    /\ UNCHANGED <<envVars, handleVars, infoVars, restartVars, hw, ret, devices_config, camera, scanVars,
                   target_signature, saveVars, fallback, userVars>>

\* lines 48-50, 102-116: the entry has no signature; the camera is created
\* first, at the configured index
Load_GenerateOpen ==
    /\ pc = "entry"
    /\ i <= Len(devices_config)
    /\ ~HasHardwareSignature(devices_config[i])
    /\ LET device == devices_config[i]
       IN  camera' = Webcam(device.device_id, device.width, device.height,
                            device.buffer_size, device.name, DefaultOrientation,
                            CanOpen(device.device_id))
    /\ pc' = "gen_probe"
    /\ UNCHANGED <<envVars, handleVars, infoVars, restartVars, hw, ret, cameras, camera_signatures, devices_config,
                   i, config_updated, updated_devices, actual, scanVars,
                   target_signature, saveVars, fallback, userVars>>

\* line 119 -> line 41: get_camera_info opens its own capture at the
\* configured index
Load_GenerateProbe ==
    /\ pc = "gen_probe"
    /\ cap2' = IF CanOpen(devices_config[i].device_id)
               THEN devices_config[i].device_id ELSE None
    /\ pc' = "gen_store"
    /\ UNCHANGED <<envVars, handleVars, infoVars, restartVars, hw, ret, cameras, camera_signatures, loadVars,
                   available_devices, k, scan_cameras, cap, scan_opens,
                   target_signature,
                   saveVars, fallback, userVars>>

\* GenerateSignature writing the size the camera reports into the entry
GenerateSignature_ResetsSize(device, signature) ==
    [updated_device |-> [device EXCEPT !.has_signature = TRUE,
                                       !.hardware_signature = signature,
                                       !.width = DefaultHeight,
                                       !.height = DefaultWidth],
     changed |-> TRUE]

\* _generate_camera_signature, lines 120-130, given the signature
\* get_camera_info built: the entry to save and the dirty bit
GenerateSignature(device, signature) ==
    [updated_device |-> [device EXCEPT !.has_signature = TRUE,
                                       !.hardware_signature = signature],
     changed |-> TRUE]

\* lines 42-63, 120-130 and 51, 53: the probe is released, the signature
\* written into the entry, the camera stored, the entry appended
Load_GenerateStore ==
    /\ pc = "gen_store"
    /\ LET device == devices_config[i]
           signature == CameraInfoSignature(system, tools, hw, device.device_id,
                                            cap2 # None)
           r == GenerateSignature(device, signature)
       IN  /\ cameras' = Put(cameras, device.name, camera)
           /\ camera_signatures' = Put(camera_signatures, device.name, signature)
           /\ config_updated' = (config_updated \/ r.changed)
           /\ updated_devices' = Append(updated_devices, r.updated_device)
    /\ cap2' = None
    /\ camera' = NoCamera
    /\ actual' = Append(actual, NoLookup)
    /\ i' = i + 1
    /\ pc' = "entry"
    /\ UNCHANGED <<envVars, handleVars, infoVars, restartVars, hw, ret, devices_config, available_devices, k,
                   scan_cameras, cap, scan_opens, target_signature, saveVars,
                   fallback, userVars>>

\* ShouldSave saving after every pass
ShouldSave_Always(updated) == TRUE

\* line 56: is the configuration saved
ShouldSave(updated) == updated

\* lines 55-66: after the last entry the configuration is saved if dirty;
\* save_config may raise, and the except branch builds the default camera
Load_Save ==
    /\ pc = "entry"
    /\ i > Len(devices_config)
    /\ IF ShouldSave(config_updated)
       THEN /\ save_calls' = save_calls + 1
            /\ saved' = Append(saved, updated_devices)
            /\ \E raises \in BOOLEAN :
                  IF raises
                  THEN /\ cameras' = FallbackCameras
                       /\ fallback' = TRUE
                       /\ UNCHANGED config
                  ELSE /\ config' = [config EXCEPT !.devices = updated_devices]
                       /\ UNCHANGED <<cameras, fallback>>
       ELSE UNCHANGED <<saveVars, cameras, fallback>>
    /\ pc' = "done"
    /\ UNCHANGED <<envVars, handleVars, infoVars, restartVars, hw, ret, camera_signatures, loadVars, scanVars,
                   target_signature, userVars>>

Next ==
    \/ Scan_Enumerate
    \/ Scan_Open
    \/ Scan_Probe
    \/ Scan_Record
    \/ Scan_Return
    \/ Load_ReadConfig
    \/ Load_FindBySignature
    \/ Load_Lookup
    \/ Load_GenerateOpen
    \/ Load_GenerateProbe
    \/ Load_GenerateStore
    \/ Load_Save

Spec == Init /\ [][Next]_vars

(***************************************************************************)
(* The identifier used on its own: the application calls                   *)
(* find_camera_by_signature between hardware changes.                      *)
(***************************************************************************)
\* the camera at index a shows up at index b: it was unplugged and plugged
\* in again there, or the OS enumerates a and b in the other order
User_Replug ==
    /\ pc = "idle"
    /\ replugs < MaxReplug
    /\ \E a, b \in DeviceIds :
          /\ a # b
          /\ hw[a].st # "absent"
          /\ \/ hw' = [hw EXCEPT ![a] = Absent, ![b] = hw[a]]
             \/ hw' = [hw EXCEPT ![a] = hw[b], ![b] = hw[a]]
          /\ Plausible(system, hw')
    /\ replugs' = replugs + 1
    /\ UNCHANGED <<envVars, handleVars, infoVars, restartVars, config, pc, ret, cameras, camera_signatures,
                   loadVars, scanVars, target_signature, save_calls, saved,
                   fallback, resolve_log>>

\* find_camera_by_signature(target_signature), line 111: the scan starts
User_Resolve ==
    /\ pc = "idle"
    /\ Len(resolve_log) < MaxResolve
    /\ \E sg \in SignaturePool(system, tools, exclusive) : target_signature' = sg
    /\ ret' = "user"
    /\ pc' = "scan_enum"
    /\ UNCHANGED <<envVars, handleVars, infoVars, restartVars, hw, cameras, camera_signatures, loadVars, scanVars,
                   saveVars, fallback, userVars>>

\* lines 112-115: the scan is searched and the index returned
User_Lookup ==
    /\ pc = "user_lookup"
    /\ resolve_log' = Append(resolve_log,
                             [signature |-> target_signature, hw |-> hw,
                              result |-> FindInScan(scan_cameras, target_signature)])
    /\ pc' = "idle"
    /\ UNCHANGED <<envVars, handleVars, infoVars, restartVars, hw, ret, cameras, camera_signatures, loadVars,
                   scanVars, target_signature, saveVars, fallback, replugs>>

InitResolve ==
    /\ InitEnv
    /\ config = [readable |-> TRUE, devices |-> <<>>]
    /\ pc = "idle"
    /\ ret = "user"
    /\ InitLocals
    /\ NoHandle
    /\ NoInfo

NextResolve ==
    \/ Scan_Enumerate
    \/ Scan_Open
    \/ Scan_Probe
    \/ Scan_Record
    \/ Scan_Return
    \/ User_Replug
    \/ User_Resolve
    \/ User_Lookup

SpecResolve == InitResolve /\ [][NextResolve]_vars

(***************************************************************************)
(* A Webcam used on its own: constructed, used, released, deleted.         *)
(***************************************************************************)
\* the (width, height) pairs the application asks for
Resolutions == {<<640, 480>>, <<1280, 720>>}

\* what cap.get answers for a property: the frame rates of the cameras
PropertyValues == {KindA.fps, KindB.fps}

\* the frame size of the device at index d in its own mode
NativeSize(d) == <<HwAt(hw, d).desc.width, HwAt(hw, d).desc.height>>

\* the plugin is not running; one device, at the default index
InitAlone ==
    /\ system = "linux"
    /\ tools = ToolsOk
    /\ exclusive = FALSE
    /\ hw \in [DeviceIds -> DeviceStates]
    /\ \A d \in DeviceIds : d # DefaultDeviceId => hw[d] = Absent
    /\ config = [readable |-> TRUE, devices |-> <<>>]
    /\ pc = "idle"
    /\ ret = "user"
    /\ InitLocals

\* a Webcam(...) call is about to run with arguments from argset
InitNew(argset) ==
    /\ args \in argset
    /\ handle = NoCamera
    /\ handle_pc = "new"
    /\ frame_size = <<0, 0>>
    /\ cap_release_calls = 0
    /\ cap_reads = <<>>
    /\ cap_prop_calls = 0
    /\ release_calls = 0
    /\ result = [op |-> "none", read |-> "none", value |-> <<>>]
    /\ ops = 0

plugVars == <<envVars, hw, config, pc, ret, cameras, camera_signatures,
              loadVars, scanVars, target_signature, save_calls, saved,
              fallback, userVars, infoVars, restartVars>>

\* Webcam(width=, height=, orientation=): __init__ and _initialize_camera;
\* the primitive ends with the requested frame size or with the size the
\* driver substitutes, and the raw fields keep the arguments
Handle_Construct ==
    /\ handle_pc = "new"
    /\ LET opened == CanOpen(DefaultDeviceId)
       IN  /\ handle' = Webcam(DefaultDeviceId, args.width, args.height,
                               DefaultBufferSize, "default_camera",
                               args.orientation, opened)
           /\ IF opened
              THEN frame_size' \in Negotiated(<<args.width, args.height>>,
                                              NativeSize(DefaultDeviceId))
              ELSE frame_size' = frame_size
    /\ handle_pc' = "live"
    /\ UNCHANGED <<plugVars, args, cap_release_calls, cap_reads,
                   cap_prop_calls, release_calls, result, ops>>

\* Webcam.get_frame(): one cap.read(), which the device answers or not
Handle_GetFrame ==
    /\ handle_pc = "live"
    /\ ops < MaxOps
    /\ \E read_ok \in BOOLEAN :
          LET r == GetFrame(handle, read_ok, frame_size)
          IN  /\ handle' = r.handle
              /\ cap_reads' = IF r.reads = 0 THEN cap_reads
                             ELSE Append(cap_reads, read_ok)
              /\ result' = [op |-> "get_frame",
                            read |-> IF r.reads = 0 THEN "none"
                                     ELSE IF read_ok THEN "ok" ELSE "failed",
                            value |-> r.frame]
    /\ ops' = ops + 1
    /\ UNCHANGED <<plugVars, args, handle_pc, frame_size, cap_release_calls,
                   cap_prop_calls, release_calls>>

\* Webcam.get_resolution()
Handle_GetResolution ==
    /\ handle_pc = "live"
    /\ ops < MaxOps
    /\ result' = [op |-> "get_resolution", read |-> "none",
                  value |-> GetResolution(handle, frame_size)]
    /\ cap_prop_calls' = cap_prop_calls + SizeCalls(handle)
    /\ ops' = ops + 1
    /\ UNCHANGED <<plugVars, args, handle, handle_pc, frame_size,
                   cap_release_calls, cap_reads, release_calls>>

\* Webcam.set_resolution(width, height): each cap.set answers True or False;
\* when both answer True the primitive has the requested size or the size
\* the driver substitutes, otherwise it may also have kept its size
Handle_SetResolution ==
    /\ handle_pc = "live"
    /\ ops < MaxOps
    /\ \E size \in Resolutions, success_width, success_height \in BOOLEAN :
          LET r == SetResolution(handle, size[1], size[2], success_width,
                                 success_height)
              outcomes == Negotiated(size, NativeSize(handle.device_id))
          IN  /\ handle' = r.handle
              /\ result' = [op |-> "set_resolution", read |-> "none",
                            value |-> <<r.value>>]
              /\ IF NotUsable(handle) THEN frame_size' = frame_size
                 ELSE IF r.value THEN frame_size' \in outcomes
                 ELSE frame_size' \in outcomes \cup {frame_size}
    /\ cap_prop_calls' = cap_prop_calls + SizeCalls(handle)
    /\ ops' = ops + 1
    /\ UNCHANGED <<plugVars, args, handle_pc, cap_release_calls,
                   cap_reads, release_calls>>

\* Webcam.set_property(prop_id, value): one cap.set, answering True or False
Handle_SetProperty ==
    /\ handle_pc = "live"
    /\ ops < MaxOps
    /\ \E success \in BOOLEAN :
          LET r == SetProperty(handle, success)
          IN  /\ result' = [op |-> "set_property", read |-> "none",
                            value |-> <<r.value>>]
              /\ cap_prop_calls' = cap_prop_calls + r.calls
    /\ ops' = ops + 1
    /\ UNCHANGED <<plugVars, args, handle, handle_pc, frame_size,
                   cap_release_calls, cap_reads, release_calls>>

\* Webcam.get_property(prop_id): one cap.get, answering the property's value
Handle_GetProperty ==
    /\ handle_pc = "live"
    /\ ops < MaxOps
    /\ \E answer \in PropertyValues :
          LET r == GetProperty(handle, answer)
          IN  /\ result' = [op |-> "get_property", read |-> "none",
                            value |-> <<r.value>>]
              /\ cap_prop_calls' = cap_prop_calls + r.calls
    /\ ops' = ops + 1
    /\ UNCHANGED <<plugVars, args, handle, handle_pc, frame_size,
                   cap_release_calls, cap_reads, release_calls>>

\* Webcam.release(), called by the application or by release_all
Handle_Release ==
    /\ handle_pc = "live"
    /\ ops < MaxOps
    /\ handle' = Release(handle)
    /\ cap_release_calls' = cap_release_calls + ReleaseCloses(handle)
    /\ release_calls' = release_calls + 1
    /\ \E caller \in {"release", "release_all"} :
          result' = [op |-> caller, read |-> "none", value |-> <<>>]
    /\ ops' = ops + 1
    /\ UNCHANGED <<plugVars, args, handle_pc, frame_size, cap_reads,
                   cap_prop_calls>>

\* Webcam.__del__(): the destructor calls release() once more
Handle_Del ==
    /\ handle_pc = "live"
    /\ handle' = Release(handle)
    /\ cap_release_calls' = cap_release_calls + ReleaseCloses(handle)
    /\ release_calls' = release_calls + 1
    /\ result' = [op |-> "__del__", read |-> "none", value |-> <<>>]
    /\ handle_pc' = "deleted"
    /\ UNCHANGED <<plugVars, args, frame_size, cap_reads, cap_prop_calls, ops>>

\* the arguments of the handle the application uses
HandleArgs ==
    {[width |-> size[1], height |-> size[2], orientation |-> o] :
        size \in Resolutions, o \in {0, 90, 180, 270}}

InitHandle == InitAlone /\ NoInfo /\ InitNew(HandleArgs)

NextHandle ==
    \/ Handle_Construct
    \/ Handle_GetFrame
    \/ Handle_GetResolution
    \/ Handle_SetResolution
    \/ Handle_SetProperty
    \/ Handle_GetProperty
    \/ Handle_Release
    \/ Handle_Del

SpecHandle == InitHandle /\ [][NextHandle]_vars

\* every integer orientation argument of the range
ConstructArgs ==
    {[width |-> DefaultWidth, height |-> DefaultHeight, orientation |-> o] :
        o \in (-MaxDegrees) .. MaxDegrees}

InitConstruct == InitAlone /\ NoInfo /\ InitNew(ConstructArgs)

NextConstruct ==
    \/ Handle_Construct
    \/ Handle_Del

SpecConstruct == InitConstruct /\ [][NextConstruct]_vars

(***************************************************************************)
(* The signature of get_camera_info on its own: lines 53-61 applied to an  *)
(* info dict whose fields the probe and the platform filled in or not.     *)
(***************************************************************************)
\* the values each field of the info dict can hold
InfoChoices ==
    [vendor_id : {<<>>, KindA.vendor_id},
     product_id : {<<>>, KindA.product_id},
     serial_number : {<<>>, <<"S", "N", "1">>},
     resolution_signature :
        {<<>>, ResolutionSignature(KindA.width, KindA.height, KindA.fps)},
     name : {<<>>, KindA.name, <<"C", "a", "m">>}]

InitSignature ==
    /\ InitAlone
    /\ NoHandle
    /\ camera_info \in InfoChoices
    /\ described = None
    /\ signatures = <<>>

\* lines 53-61: signature_parts is built from info and joined
Info_BuildSignature ==
    /\ Len(signatures) < MaxBuilds
    /\ signatures' = Append(signatures,
                            UniqueSignature(camera_info,
                                            camera_info.resolution_signature))
    /\ UNCHANGED <<envVars, handleVars, restartVars, hw, config, pc, ret, cameras,
                   camera_signatures, loadVars, scanVars, target_signature,
                   saveVars, fallback, userVars, camera_info, described>>

NextSignature == Info_BuildSignature

SpecSignature == InitSignature /\ [][NextSignature]_vars

(***************************************************************************)
(* get_camera_info on its own, under every outcome of the tools.           *)
(***************************************************************************)
\* the outcomes of the tools the identifier of sys runs
DescribeToolStates(sys) ==
    IF sys = "linux"
    THEN [v4l2 : ToolOutcomes, udevadm : ToolOutcomes, system_profiler : {"ok"}]
    ELSE IF sys = "darwin"
    THEN [v4l2 : {"ok"}, udevadm : {"ok"}, system_profiler : ToolOutcomes]
    ELSE {ToolsOk}

InitDescribe ==
    /\ system \in Systems
    /\ tools \in DescribeToolStates(system)
    /\ exclusive = FALSE
    /\ hw \in [DeviceIds -> DeviceStates]
    /\ Plausible(system, hw)
    /\ config = [readable |-> TRUE, devices |-> <<>>]
    /\ pc = "idle"
    /\ ret = "user"
    /\ InitLocals
    /\ NoHandle
    /\ NoInfo

\* get_camera_info(device_id), lines 28-63: the probe fills in
\* resolution_signature, _get_platform_camera_info the other fields, and
\* the signature is joined from them
Info_Describe ==
    /\ described = None
    /\ \E device_id \in DeviceIds :
          LET platform == PlatformInfo(system, tools, hw, device_id)
              desc == HwAt(hw, device_id).desc
              filled ==
                  [name |-> platform.name,
                   vendor_id |-> platform.vendor_id,
                   product_id |-> platform.product_id,
                   serial_number |-> platform.serial_number,
                   resolution_signature |->
                       IF CanOpen(device_id)
                       THEN ResolutionSignature(desc.width, desc.height, desc.fps)
                       ELSE <<>>]
          IN  /\ described' = device_id
              /\ camera_info' = filled
              /\ signatures' =
                    Append(signatures,
                           UniqueSignature(filled, filled.resolution_signature))
    /\ UNCHANGED <<envVars, handleVars, restartVars, hw, config, pc, ret, cameras,
                   camera_signatures, loadVars, scanVars, target_signature,
                   saveVars, fallback, userVars>>

NextDescribe == Info_Describe

SpecDescribe == InitDescribe /\ [][NextDescribe]_vars

(***************************************************************************)
(* The plugin constructed again: the process ends, its cameras are         *)
(* released, and the next WebcamPlugin() runs the pass on the stored       *)
(* configuration and the same hardware.                                    *)
(***************************************************************************)
MaxPasses == 1

\* __del__ -> release_all, then __init__ of the next instance: the captures
\* are closed, cameras and camera_signatures start empty, the pass starts
Plugin_Restart ==
    /\ pc = "done"
    /\ passes < MaxPasses
    /\ previous' = [devices_config |-> devices_config,
                    updated_devices |-> updated_devices,
                    cameras |-> cameras,
                    camera_signatures |-> camera_signatures,
                    actual |-> actual,
                    saved |-> saved,
                    fallback |-> fallback]
    /\ passes' = passes + 1
    /\ cameras' = << >>
    /\ camera_signatures' = << >>
    /\ devices_config' = <<>>
    /\ i' = 0
    /\ config_updated' = FALSE
    /\ updated_devices' = <<>>
    /\ camera' = NoCamera
    /\ available_devices' = <<>>
    /\ k' = 0
    /\ scan_cameras' = <<>>
    /\ cap' = None
    /\ cap2' = None
    /\ scan_opens' = <<>>
    /\ target_signature' = <<>>
    /\ actual' = <<>>
    /\ save_calls' = 0
    /\ saved' = <<>>
    /\ fallback' = FALSE
    /\ pc' = "scan_enum"
    /\ ret' = "load"
    /\ UNCHANGED <<envVars, handleVars, infoVars, hw, config, userVars>>

NextRestart ==
    \/ Scan_Enumerate
    \/ Scan_Open
    \/ Scan_Probe
    \/ Scan_Record
    \/ Scan_Return
    \/ Load_ReadConfig
    \/ Load_FindBySignature
    \/ Load_Lookup
    \/ Load_GenerateOpen
    \/ Load_GenerateProbe
    \/ Load_GenerateStore
    \/ Load_Save
    \/ Plugin_Restart

SpecRestart == Init /\ [][NextRestart]_vars

(***************************************************************************)
(* Properties.                                                             *)
(***************************************************************************)
\* entry j has been processed by the pass
Processed(j) == j \in 1 .. Len(actual)

\* entry j had a signature that find_camera_by_signature resolved
Resolved(j) == Processed(j) /\ actual[j] # None /\ actual[j] # NoLookup

\* entry j had a signature that resolved to another index than the stored one
Drifted(j) == Resolved(j) /\ actual[j] # devices_config[j].device_id

\* entry j had a signature that matched no live device
Unresolved(j) == Processed(j) /\ actual[j] = None

\* entry j had no signature and went through _generate_camera_signature
Bootstrapped(j) == Processed(j) /\ actual[j] = NoLookup

\* C1 (drift repair): for every entry whose signature resolved to an index
\* different from its stored device_id, the entry to save carries the
\* resolved index, the configuration is dirty, the camera of that entry is
\* open at the resolved index, and the finished pass has called save with
\* the repaired entry.
C1_DriftRepair ==
    \A j \in 1 .. Len(actual) :
        Drifted(j) =>
            LET name == devices_config[j].name
            IN  /\ updated_devices[j].device_id = actual[j]
                /\ updated_devices[j].device_id # devices_config[j].device_id
                /\ config_updated
                /\ name \in DOMAIN cameras
                /\ cameras[name].device_id = actual[j]
                /\ cameras[name].is_opened
                /\ pc = "done" =>
                      /\ save_calls = 1
                      /\ saved[1][j].device_id = actual[j]

C1_Witness ==
    /\ pc = "done"
    /\ \E j \in 1 .. Len(actual) : Drifted(j)

\* C3 (unresolvable camera): for every entry whose signature matched no
\* live device, the entry to save equals the stored entry, no camera and no
\* signature is filed under its name, no capture handle is left open by its
\* processing, and the configuration is dirty only if some other entry
\* drifted or was bootstrapped.
C3_UnresolvedUntouched ==
    /\ \A j \in 1 .. Len(actual) :
          Unresolved(j) =>
              /\ updated_devices[j] = devices_config[j]
              /\ devices_config[j].name \notin DOMAIN cameras
              /\ devices_config[j].name \notin DOMAIN camera_signatures
    /\ config_updated => \E j \in 1 .. Len(actual) : Drifted(j) \/ Bootstrapped(j)
    /\ pc \in {"entry", "done"} =>
          \A d \in DeviceIds :
              /\ TransientOn(d) = 0
              /\ PersistentOn(d) =
                    Cardinality({n \in DOMAIN cameras :
                                    cameras[n].is_opened /\ cameras[n].device_id = d})

C3_Witness ==
    /\ pc = "done"
    /\ \E j \in 1 .. Len(actual) : Unresolved(j)
    /\ \E j \in 1 .. Len(actual) : Drifted(j)

\* C5 (unchanged entries do not dirty the configuration): a finished pass in
\* which every entry had a signature that resolved to its stored device_id
\* has made no call of save_config.
C5_UnchangedNoSave ==
    (/\ pc = "done"
     /\ Len(actual) = Len(devices_config)
     /\ \A j \in 1 .. Len(actual) : Resolved(j) /\ ~Drifted(j))
        => (save_calls = 0 /\ saved = <<>> /\ ~config_updated)

C5_Witness ==
    /\ pc = "done"
    /\ Len(actual) = Len(devices_config)
    /\ Len(actual) = MaxEntries
    /\ \A j \in 1 .. Len(actual) : Resolved(j) /\ ~Drifted(j)
    /\ \A j \in 1 .. Len(actual) : cameras[devices_config[j].name].is_opened

\* C6 (batched persistence): save_config is called at most once in a pass;
\* the finished pass has called it exactly once if and only if some entry
\* drifted or was bootstrapped; it is called only after every entry has been
\* processed; and what it is given is the full list of entries to save, one
\* per loaded entry, in order.
C6_BatchedSave ==
    /\ save_calls <= 1
    /\ Len(saved) = save_calls
    /\ (pc = "done" /\ config.readable) =>
          (save_calls = 1 <=> \E j \in 1 .. Len(actual) : Drifted(j) \/ Bootstrapped(j))
    /\ save_calls = 1 =>
          /\ pc = "done"
          /\ Len(actual) = Len(devices_config)
          /\ saved[1] = updated_devices
          /\ Len(saved[1]) = Len(devices_config)
          /\ \A j \in 1 .. Len(devices_config) :
                saved[1][j].name = devices_config[j].name

C6_Witness ==
    /\ pc = "done"
    /\ save_calls = 1
    /\ Len(devices_config) = MaxEntries
    /\ \E j \in 1 .. Len(actual) : Drifted(j)
    /\ \E j \in 1 .. Len(actual) : updated_devices[j] = devices_config[j]

\* the signature a scan files index d under when d opens: inside
\* get_all_cameras the probe of get_camera_info is a second capture on d,
\* which opens unless the driver is exclusive
ScanFingerprint(hwmap, d) ==
    CameraInfoSignature(system, tools, hwmap, d, ~exclusive)

\* the indices that open in hwmap and whose scan key is sg
Matching(hwmap, sg) ==
    {d \in DeviceIds :
        /\ hwmap[d].st = "ok"
        /\ CameraKey(ScanFingerprint(hwmap, d), d) = sg}

\* C2 (round-trip resolution without caching): every call of
\* find_camera_by_signature(F) returns the index of the one openable device
\* whose fingerprint is F at the time of the call, when there is exactly
\* one, and None when no openable device has key F.
C2_ResolveIsFresh ==
    \A n \in 1 .. Len(resolve_log) :
        LET r == resolve_log[n]
            m == Matching(r.hw, r.signature)
        IN  /\ Cardinality(m) = 1 => r.result \in m
            /\ m = {} => r.result = None

\* C4 (no-signature bootstrap): every entry without a signature whose
\* device opened at the configured index ends the pass with a non-empty
\* signature written into the entry to save, and the finished pass has
\* called save_config exactly once.
C4_BootstrapNonEmpty ==
    \A j \in 1 .. Len(actual) :
        (Bootstrapped(j) /\ cameras[devices_config[j].name].is_opened) =>
            /\ updated_devices[j].has_signature
            /\ updated_devices[j].hardware_signature # <<>>
            /\ pc = "done" => save_calls = 1

\* entry j has an active camera in the map
Active(j) ==
    /\ devices_config[j].name \in DOMAIN cameras
    /\ cameras[devices_config[j].name].is_opened

\* index d opens and no camera of another entry holds it
FreeFor(j, d) ==
    /\ hw[d].st = "ok"
    /\ \A n \in DOMAIN cameras :
          (n # devices_config[j].name /\ cameras[n].is_opened)
              => cameras[n].device_id # d

\* the device of entry j can be opened: the configured index for an entry
\* without signature, some index whose fingerprint is the entry's otherwise
DeviceOpenable(j) ==
    IF HasHardwareSignature(devices_config[j])
    THEN \E d \in Matching(hw, devices_config[j].hardware_signature) : FreeFor(j, d)
    ELSE FreeFor(j, devices_config[j].device_id)

\* C7 (partial-failure isolation): the finished pass over a readable
\* configuration has processed every entry, and when the device of one
\* entry cannot be opened, every other entry whose device can be opened has
\* an open camera in the map.
C7_FailureIsolation ==
    (pc = "done" /\ config.readable) =>
        /\ Len(actual) = Len(devices_config)
        /\ \A j, f \in 1 .. Len(devices_config) :
              (j # f /\ ~DeviceOpenable(f) /\ DeviceOpenable(j)) => Active(j)

\* C8 (no transient re-open under a persistent handle): at every point no
\* index is held open by a persistent handle and a transient capture at the
\* same time, and no index is held open by two transient captures.
C8_NoTransientReopen ==
    \A d \in DeviceIds :
        /\ PersistentOn(d) > 0 => TransientOn(d) = 0
        /\ TransientOn(d) <= 1

\* C9 (no duplicate opens): no two cameras of the map are open on the same
\* device index.
C9_NoDuplicateOpen ==
    \A n1, n2 \in DOMAIN cameras :
        (/\ n1 # n2
         /\ cameras[n1].is_opened
         /\ cameras[n2].is_opened) => cameras[n1].device_id # cameras[n2].device_id

\* C10 as stated (default fallback): after construction over an unreadable
\* configuration or one with zero entries, the map holds exactly the camera
\* "default", at device index 0.
C10_DefaultOnUnreadableOrEmpty ==
    (pc = "done" /\ (~config.readable \/ config.devices = <<>>)) =>
        /\ DOMAIN cameras = {"default"}
        /\ cameras["default"].device_id = DefaultDeviceId

\* C10 as amended (default fallback): after construction over an unreadable
\* configuration the map holds exactly the camera "default", at device
\* index 0, and nothing was saved; after construction over a readable
\* configuration with zero entries the map is empty and the except branch
\* has not run.
C10_DefaultOnUnreadable ==
    pc = "done" =>
        /\ ~config.readable =>
              /\ fallback
              /\ DOMAIN cameras = {"default"}
              /\ cameras["default"].device_id = DefaultDeviceId
              /\ cameras["default"].name = "default_camera"
              /\ save_calls = 0
        /\ (config.readable /\ config.devices = <<>>) =>
              /\ ~fallback
              /\ DOMAIN cameras = {}
              /\ save_calls = 0

C10_Witness ==
    /\ pc = "done"
    /\ ~config.readable
    /\ "default" \in DOMAIN cameras
    /\ cameras["default"].is_opened

\* the finished pass read the configuration and its save_config call raised
SaveFailed == pc = "done" /\ config.readable /\ fallback

\* C11 (persistence failure keeps the reconciled state): when save_config
\* raised during the pass, the map holds exactly the cameras of the entries
\* the pass resolved or bootstrapped, every open persistent handle belongs
\* to one of them, and save_config was called once.
C11_SaveFailureKeepsState ==
    SaveFailed =>
        /\ save_calls = 1
        /\ DOMAIN cameras =
              {devices_config[j].name :
                  j \in {h \in 1 .. Len(actual) : Resolved(h) \/ Bootstrapped(h)}}
        /\ \A n \in DOMAIN cameras :
              \E j \in 1 .. Len(devices_config) : devices_config[j].name = n

\* C12 (a camera exists only for an opened device): every camera the map
\* holds under the name of a configuration entry was opened successfully.
C12_CameraOnlyIfOpened ==
    \A j \in 1 .. Len(actual) :
        devices_config[j].name \in DOMAIN cameras
            => cameras[devices_config[j].name].is_opened

\* C13 (configured orientation reaches the camera): every camera created
\* from a configuration entry has the entry's orientation, normalized, and
\* for 90 or 270 it reports its raw dimensions swapped.
C13_OrientationApplied ==
    \A j \in 1 .. Len(actual) :
        devices_config[j].name \in DOMAIN cameras =>
            LET c == cameras[devices_config[j].name]
                o == NormalizeOrientation(devices_config[j].orientation)
            IN  /\ c.orientation = o
                /\ o \in {90, 270} =>
                      GetResolution(c, <<c.raw_width, c.raw_height>>)
                          = <<c.raw_height, c.raw_width>>

\* what the handle reports from its raw fields alone
RawOriented(h) ==
    IF h.orientation \in {90, 270} THEN <<h.raw_height, h.raw_width>>
    ELSE <<h.raw_width, h.raw_height>>

\* C14 (geometry swap): in every state of a constructed handle
\* get_resolution returns (raw_height, raw_width) for orientation 90 or 270
\* and (raw_width, raw_height) for 0 or 180, and so did the last
\* get_resolution call.
C14_GeometrySwap ==
    handle_pc \in {"live", "deleted"} =>
        /\ GetResolution(handle, frame_size) = RawOriented(handle)
        /\ result.op = "get_resolution" => result.value = RawOriented(handle)

\* C15 (raw dimensions track the negotiation): while the handle is open,
\* raw_width and raw_height are the frame size the primitive has.
C15_RawTracksNegotiation ==
    (handle_pc = "live" /\ handle.is_opened)
        => <<handle.raw_width, handle.raw_height>> = frame_size

\* the multiples of 90 around the range of orientation arguments
Turns == (-((MaxDegrees \div 90) + 2)) .. ((MaxDegrees \div 90) + 2)

Distance(a, b) == IF a >= b THEN a - b ELSE b - a

\* C16 (orientation normalization): the orientation of a constructed
\* handle is one of 0, 90, 180, 270 and is a nearest multiple of 90 of the
\* argument, reduced modulo 360; 450 gives 90, -90 gives 270, 360 gives 0;
\* normalizing the result again returns it unchanged.
C16_OrientationNormalized ==
    handle_pc \in {"live", "deleted"} =>
        LET a == args.orientation
            o == handle.orientation
        IN  /\ o \in {0, 90, 180, 270}
            /\ \E m \in Turns :
                  /\ \A n \in Turns : Distance(a, 90 * m) <= Distance(a, 90 * n)
                  /\ o = (90 * m) % 360
            /\ a = 450 => o = 90
            /\ a = -90 => o = 270
            /\ a = 360 => o = 0
            /\ NormalizeOrientation(o) = o

C16_Witness ==
    /\ handle_pc = "live"
    /\ args.orientation = -135
    /\ handle.orientation = 180

\* the open of the handle's primitive succeeded
OpenSucceeded == handle.cap # "failed" /\ HwAt(hw, handle.device_id).st = "ok"

\* C17 (release runs exactly once per opened handle): cap.release() is
\* called at most once, never on a primitive whose open failed, and exactly
\* once by the time an opened handle is deleted.
C17_CloseExactlyOnce ==
    handle_pc \in {"live", "deleted"} =>
        /\ cap_release_calls <= 1
        /\ ~OpenSucceeded => cap_release_calls = 0
        /\ (handle_pc = "deleted" /\ OpenSucceeded) => cap_release_calls = 1

\* what the application can read off a handle
Observable(h) == <<h.is_opened, h.raw_width, h.raw_height, h.orientation>>

\* C18 (release is idempotent): every release() call leaves is_opened
\* false and the raw dimensions and the orientation as they were, and a
\* release() call on a handle already released changes nothing observable.
C18_ReleaseIdempotent ==
    [][release_calls' = release_calls + 1 =>
          /\ ~handle'.is_opened
          /\ handle'.raw_width = handle.raw_width
          /\ handle'.raw_height = handle.raw_height
          /\ handle'.orientation = handle.orientation
          /\ release_calls >= 1 => Observable(handle') = Observable(handle)]_vars

C18_Witness ==
    /\ release_calls >= 2
    /\ handle_pc = "live"
    /\ result.op = "release"
    /\ HwAt(hw, handle.device_id).st = "ok"
    /\ ~handle.is_opened

\* C19 (a failed frame read is not fatal): a get_frame() call makes at most
\* one cap.read(), never calls cap.release(), and leaves the handle and the
\* primitive's frame size as they were; it returns None when the read
\* failed and a frame when the read succeeded, also after a failed read.
C19_FailedReadNotFatal ==
    [][(result'.op = "get_frame" /\ ops' = ops + 1) =>
          /\ handle' = handle
          /\ frame_size' = frame_size
          /\ cap_release_calls' = cap_release_calls
          /\ release_calls' = release_calls
          /\ Len(cap_reads') <= Len(cap_reads) + 1
          /\ handle.is_opened => Len(cap_reads') = Len(cap_reads) + 1
          /\ result'.read = "failed" => result'.value = <<>>
          /\ result'.read = "ok" =>
                result'.value = ApplyOrientation(frame_size, handle.orientation)]_vars

C19_Witness ==
    /\ Len(cap_reads) >= 2
    /\ ~cap_reads[1]
    /\ cap_reads[2]
    /\ result.op = "get_frame"
    /\ result.read = "ok"
    /\ result.value # <<>>
    /\ handle.is_opened

\* the five fields of the signature in their order, the name with its
\* spaces replaced
SignatureFields(inf) ==
    <<inf.vendor_id, inf.product_id, inf.serial_number,
      inf.resolution_signature,
      [j \in 1 .. Len(inf.name) |-> IF inf.name[j] = " " THEN "_" ELSE inf.name[j]]>>

IsFilled(field) == field # <<>>

RECURSIVE SegmentStart(_, _)
\* the position before segment j of a join of segs with one separator
\* between neighbours
SegmentStart(segs, j) ==
    IF j = 1 THEN 0 ELSE SegmentStart(segs, j - 1) + Len(segs[j - 1]) + 1

\* sg is segs joined with "_": every segment at its place, one separator
\* after each but the last, and nothing else
IsJoinOf(sg, segs) ==
    IF segs = <<>> THEN sg = <<>>
    ELSE /\ Len(sg) = SegmentStart(segs, Len(segs)) + Len(segs[Len(segs)])
         /\ \A j \in 1 .. Len(segs) :
               /\ SubSeq(sg, SegmentStart(segs, j) + 1,
                         SegmentStart(segs, j) + Len(segs[j])) = segs[j]
               /\ j < Len(segs) =>
                     sg[SegmentStart(segs, j) + Len(segs[j]) + 1] = "_"

\* C20 (fingerprint construction): every signature built from an info dict
\* is the "_"-join, in the order vendor_id, product_id, serial_number,
\* resolution_signature, name with spaces replaced, of exactly the
\* non-empty fields; it has no leading, trailing or doubled separator; it
\* is empty exactly when all five fields are empty; building it again
\* gives the same string; vendor_id "046d" alone gives "046d".
C20_SignatureIsJoin ==
    \A n \in 1 .. Len(signatures) :
        LET sg == signatures[n]
            fields == SignatureFields(camera_info)
        IN  /\ IsJoinOf(sg, SelectSeq(fields, IsFilled))
            /\ sg = <<>> <=> \A j \in 1 .. 5 : fields[j] = <<>>
            /\ sg # <<>> =>
                  /\ sg[1] # "_"
                  /\ sg[Len(sg)] # "_"
                  /\ \A j \in 1 .. (Len(sg) - 1) : ~(sg[j] = "_" /\ sg[j + 1] = "_")
            /\ sg = signatures[1]
            /\ camera_info = [BlankInfo EXCEPT !.vendor_id = <<"0", "4", "6", "d">>]
                  => sg = <<"0", "4", "6", "d">>

C20_Witness ==
    /\ Len(signatures) = MaxBuilds
    /\ camera_info.vendor_id = <<"0", "4", "6", "d">>
    /\ camera_info.product_id = <<>>
    /\ camera_info.serial_number = <<>>
    /\ camera_info.resolution_signature = <<>>
    /\ camera_info.name = <<"H", "D", " ", "C", "a", "m">>
    /\ signatures[MaxBuilds] = <<"0", "4", "6", "d", "_", "H", "D", "_", "C", "a", "m">>

\* a scan has enumerated the indices and the hardware is as it was then
Enumerated == pc \in {"scan_open", "scan_probe", "scan_record", "user_lookup"}

IsAscending(seq) == \A j \in 1 .. (Len(seq) - 1) : seq[j] < seq[j + 1]

\* C21 (enumeration completeness): the list get_available_video_devices
\* returned is ascending, holds only indices at which a device is present,
\* and holds every index at which a device is present and can be opened.
C21_EnumerationComplete ==
    Enumerated =>
        LET listed == {available_devices[j] : j \in 1 .. Len(available_devices)}
        IN  /\ IsAscending(available_devices)
            /\ listed \subseteq {d \in DeviceIds : hw[d].st # "absent"}
            /\ {d \in DeviceIds : hw[d].st = "ok"} \subseteq listed

\* the indices of hwmap a scan gets to: all present ones when the device
\* nodes are listed, the openable ones before the first that does not open
\* when the indices are probed
ReachedBy(hwmap) ==
    IF system = "linux" THEN {d \in DeviceIds : hwmap[d].st # "absent"}
    ELSE {d \in DeviceIds : \A e \in 0 .. d : hwmap[e].st = "ok"}

Highest(set) == CHOOSE d \in set : \A e \in set : e <= d

Lowest(set) == CHOOSE d \in set : \A e \in set : d <= e

\* C23 as stated (ambiguous fingerprint): when two or more openable
\* devices have the fingerprint asked for, find_camera_by_signature returns
\* the lowest of their indices.
C23_AmbiguousResolvesFirst ==
    \A n \in 1 .. Len(resolve_log) :
        LET r == resolve_log[n]
            m == Matching(r.hw, r.signature)
        IN  Cardinality(m) >= 2 => r.result = Lowest(m)

\* C23 as amended (ambiguous fingerprint): when two or more openable
\* devices the scan gets to have the fingerprint asked for,
\* find_camera_by_signature returns the highest of their indices (the last
\* one scanned), as a plain index like any other result.
C23_AmbiguousResolvesLast ==
    \A n \in 1 .. Len(resolve_log) :
        LET r == resolve_log[n]
            m == Matching(r.hw, r.signature) \cap ReachedBy(r.hw)
        IN  Cardinality(m) >= 2 =>
                /\ r.result = Highest(m)
                /\ r.result \in DeviceIds

C23_Witness ==
    \E n \in 1 .. Len(resolve_log) :
        /\ Cardinality(Matching(resolve_log[n].hw, resolve_log[n].signature)) >= 2
        /\ resolve_log[n].result = MaxDev - 1

\* the index the scan entry e was recorded for
EntryIndex(e) == StrToInt(e.info.device_id)

\* C24 (the scan records exactly the openable devices): a finished scan
\* has an entry only for an index that opens, filed under the fingerprint
\* of the device there or, when that is empty, under device_<index>; and
\* every index that opens and whose key no other openable device shares has
\* an entry.
C24_ScanRecordsOpenable ==
    pc = "user_lookup" =>
        /\ \A j \in 1 .. Len(scan_cameras) :
              LET e == scan_cameras[j]
                  d == EntryIndex(e)
              IN  /\ d \in DeviceIds
                  /\ hw[d].st = "ok"
                  /\ e.info.unique_signature = ScanFingerprint(hw, d)
                  /\ e.key = IF e.info.unique_signature # <<>>
                             THEN e.info.unique_signature
                             ELSE <<"d", "e", "v", "i", "c", "e", "_">> \o IntToStr(d)
        /\ \A d \in DeviceIds :
              (/\ hw[d].st = "ok"
               /\ \A e \in DeviceIds \ {d} :
                     hw[e].st = "ok" =>
                         CameraKey(ScanFingerprint(hw, e), e)
                             # CameraKey(ScanFingerprint(hw, d), d))
                  => \E j \in 1 .. Len(scan_cameras) : EntryIndex(scan_cameras[j]) = d

\* the fields of the info dict that udevadm supplies
HardwareFields(inf) == <<inf.vendor_id, inf.product_id, inf.serial_number>>

\* C22 (advisory tools degrade field by field): for every outcome of the
\* tools get_camera_info returns an info dict with its signature; on Linux
\* the name is the device's exactly when v4l2-ctl answered and vendor_id,
\* product_id and serial_number are the device's exactly when udevadm
\* answered, whatever the other tool did; on macOS the four fields are
\* empty when system_profiler did not answer; the resolution signature
\* depends on no tool.
C22_ToolsDegradeFieldwise ==
    described # None =>
        LET dev == hw[described]
            kd == dev.desc
        IN  /\ Len(signatures) = 1
            /\ camera_info.resolution_signature =
                  IF dev.st = "ok"
                  THEN ResolutionSignature(kd.width, kd.height, kd.fps)
                  ELSE <<>>
            /\ (system = "linux" /\ dev.st # "absent") =>
                  /\ camera_info.name =
                        IF tools.v4l2 = "ok" THEN kd.name ELSE <<>>
                  /\ HardwareFields(camera_info) =
                        IF tools.udevadm = "ok" THEN HardwareFields(kd)
                        ELSE <<<<>>, <<>>, <<>>>>
            /\ (system = "darwin" /\ tools.system_profiler # "ok") =>
                  /\ camera_info.name = <<>>
                  /\ HardwareFields(camera_info) = <<<<>>, <<>>, <<>>>>

\* entry u is entry d but for the device index and the signature
SameButIdentity(u, d) ==
    [u EXCEPT !.device_id = d.device_id,
              !.has_signature = d.has_signature,
              !.hardware_signature = d.hardware_signature] = d

\* C27 (reconciliation frame): the entries to save are one per processed
\* entry, in the loaded order and with the loaded names, and each differs
\* from its loaded entry in device_id and the signature at most; what
\* save_config is given is that list, as long as the loaded list; and the
\* loaded entries are still what the configuration held when it was read.
C27_ReconciliationFrame ==
    /\ Len(updated_devices) = Len(actual)
    /\ Len(updated_devices) <= Len(devices_config)
    /\ \A j \in 1 .. Len(updated_devices) :
          LET u == updated_devices[j]
              d == devices_config[j]
          IN  /\ u.name = d.name
              /\ u.width = d.width
              /\ u.height = d.height
              /\ u.buffer_size = d.buffer_size
              /\ u.orientation = d.orientation
              /\ SameButIdentity(u, d)
    /\ \A n \in 1 .. Len(saved) :
          /\ saved[n] = updated_devices
          /\ Len(saved[n]) = Len(devices_config)
    /\ (config.readable /\ i >= 1 /\ (save_calls = 0 \/ fallback))
          => devices_config = config.devices

C27_Witness ==
    /\ pc = "done"
    /\ save_calls = 1
    /\ ~fallback
    /\ config.devices = updated_devices
    /\ Len(devices_config) = MaxEntries
    /\ \E j \in 1 .. Len(actual) : Drifted(j)
    /\ \E j \in 1 .. Len(actual) : Bootstrapped(j)

\* release() has been called on the handle, or its open failed
ReleasedOrFailed ==
    /\ handle_pc = "live"
    /\ release_calls >= 1 \/ HwAt(hw, handle.device_id).st # "ok"

\* the plugin's map when the handle is its only camera
OnlyCamera(h) == [n \in {"default"} |-> h]

\* C28 (no use after release): on a handle that was released or whose open
\* failed, get_frame returns None, set_property and set_resolution return
\* False and get_property returns -1; none of them calls cap.read, cap.set,
\* cap.get or cap.release or changes the handle; get_active_cameras does
\* not report the handle; and after release_all no camera is active.
C28_NoUseAfterRelease ==
    [][/\ (ReleasedOrFailed /\ ops' = ops + 1) =>
             /\ result'.op = "get_frame" =>
                   (result'.value = <<>> /\ result'.read = "none")
             /\ result'.op \in {"set_property", "set_resolution"} =>
                   result'.value = <<FALSE>>
             /\ result'.op = "get_property" => result'.value = <<-1>>
             /\ result'.op \in {"get_frame", "set_property", "set_resolution",
                                "get_property"} =>
                   /\ cap_reads' = cap_reads
                   /\ cap_prop_calls' = cap_prop_calls
                   /\ cap_release_calls' = cap_release_calls
                   /\ frame_size' = frame_size
                   /\ handle' = handle
             /\ ActiveCameras(OnlyCamera(handle)) = {}
             /\ ActiveCameras(OnlyCamera(handle')) = {}
       /\ result'.op = "release_all" => ActiveCameras(OnlyCamera(handle')) = {}]_vars

C28_Witness ==
    /\ handle_pc = "live"
    /\ HwAt(hw, handle.device_id).st = "ok"
    /\ Len(cap_reads) = 1
    /\ cap_reads[1]
    /\ release_calls = 1
    /\ result.op = "get_frame"
    /\ result.value = <<>>
    /\ ops = 3

\* the pass is between two entries or finished without the except branch
InPass == pc \in {"entry", "lookup", "gen_probe", "gen_store"}
               \/ (pc = "done" /\ config.readable)

\* the finished pass started from the entries the previous one started from
SameConfigAgain ==
    /\ pc = "done"
    /\ passes > 0
    /\ devices_config = previous.devices_config

\* the scan calls VideoCapture on strictly ascending indices: the listed
\* indices, in list order
ScanInOrder ==
    /\ IsAscending(scan_opens)
    /\ Len(scan_opens) <= Len(available_devices)
    /\ \A j \in 1 .. Len(scan_opens) : scan_opens[j] = available_devices[j]

\* the pass has handled exactly the first entries of the stored list, in
\* their order: one lookup result and one entry to save per entry, and
\* cameras only under their names
EntriesInOrder ==
    InPass =>
        /\ Len(updated_devices) = Len(actual)
        /\ Len(updated_devices) <= Len(devices_config)
        /\ pc \in {"entry", "done"} => Len(updated_devices) = i - 1
        /\ \A j \in 1 .. Len(updated_devices) :
              updated_devices[j].name = devices_config[j].name
        /\ \A n \in DOMAIN cameras \ {"default"} :
              \E j \in 1 .. Len(updated_devices) : devices_config[j].name = n

\* the finished pass ended as the previous one did
SameOutcome ==
    /\ updated_devices = previous.updated_devices
    /\ actual = previous.actual
    /\ cameras = previous.cameras
    /\ camera_signatures = previous.camera_signatures

\* C25 (deterministic ordering): the scan opens device indices in strictly
\* ascending order, the pass handles the stored entries in their stored
\* order, and a pass that starts from the same stored entries as the pass
\* before it, on the same hardware and with save_config answering as it
\* did then, ends with the same entries to save, the same lookup results,
\* the same cameras and the same signatures.
C25_DeterministicOrdering ==
    /\ ScanInOrder
    /\ EntriesInOrder
    /\ (SameConfigAgain /\ fallback = previous.fallback) => SameOutcome

\* a second pass over two stored entries, unchanged since the first pass,
\* has finished after a scan that opened more than one index
C25_Witness ==
    /\ SameConfigAgain
    /\ fallback = previous.fallback
    /\ Len(devices_config) = 2
    /\ Len(scan_opens) >= 2
    /\ DOMAIN cameras # {}

\* the finished pass ran on the entries the previous pass saved
SecondPass ==
    /\ pc = "done"
    /\ passes > 0
    /\ previous.saved # <<>>
    /\ ~previous.fallback

\* the previous pass bootstrapped entry j or repaired its index, and
\* opened its camera
Repaired(j) ==
    /\ j \in 1 .. Len(previous.actual)
    /\ \/ previous.actual[j] = NoLookup
       \/ /\ previous.actual[j] # None
          /\ previous.actual[j] # previous.devices_config[j].device_id
    /\ previous.cameras[previous.devices_config[j].name].is_opened

\* C26 (reconciliation converges): a pass over the entries the previous
\* pass saved, on the same hardware, calls save_config zero times, leaves
\* every entry as loaded, and resolves every entry the previous pass
\* bootstrapped or repaired to the index at which that pass opened it.
C26_Converges ==
    SecondPass =>
        /\ devices_config = previous.updated_devices
        /\ save_calls = 0
        /\ updated_devices = devices_config
        /\ \A j \in 1 .. Len(devices_config) :
              Repaired(j) =>
                  /\ Resolved(j)
                  /\ actual[j] = previous.cameras[devices_config[j].name].device_id
====
